---- MODULE Spec2Model ----
(***************************************************************************)
(* Model of medkit's annotation core: Annotation / Attribute               *)
(* (medkit/core/annotation.py), Document / Collection                      *)
(* (medkit/core/document.py) and DocPipeline (medkit/core/doc_pipeline.py).*)
(*                                                                         *)
(* Python objects are modelled by their identity (a small integer);        *)
(* dicts are functions whose DOMAIN is the set of keys present; lists are  *)
(* sequences.  Document.add_annotation reads the annotation's identifier   *)
(* as `annotation.id`, Annotation.__init__ stores it as `uid`: the model   *)
(* takes both names to denote the one identifier of the annotation.  The   *)
(* Store (medkit/core/store.py) and the Pipeline (medkit/core/pipeline.py) *)
(* are modelled from their specification.                                  *)
(***************************************************************************)
EXTENDS Integers, Sequences, FiniteSets, TLC

\* ---------------------------------------------------------------- bounds
NumAnns == 3
NumAttrs == 3

AnnObjs == 1..NumAnns
AttrObjs == 1..NumAttrs
Uids == {"u1", "u2"}
Labels == {"sentence", "disease"}
Keys == {"k1"}
Docs == {"d1", "d2"}
Stores == {"s1", "s2"}
None == 0

\* Annotation.uid and Annotation.label, fixed at construction: objects 2j-1 and
\* 2j are two distinct objects built with the same uid; consecutive objects
\* alternate between the two labels.
UidOf(j) == IF j = 1 THEN "u1" ELSE "u2"
ann_uid == [o \in AnnObjs |-> UidOf((o + 1) \div 2)]
ann_label == [o \in AnnObjs |-> IF o % 2 = 1 THEN "sentence" ELSE "disease"]

\* Attribute.uid and Attribute.label, laid out like the annotations'
attr_uid == [a \in AttrObjs |-> IF (a + 1) \div 2 = 1 THEN "x1" ELSE "x2"]
attr_label == [a \in AttrObjs |-> IF a % 2 = 1 THEN "is_family" ELSE "is_negated"]
AttrLabels == {"is_family", "is_negated"}
InputKeys == {"in1", "in2"}

VARIABLES
    ann_keys,                 \* Annotation.keys
    doc_store,                \* Document.store: which Store the document references
    store,                    \* DictStore contents: uid -> object, per Store
    annotation_ids,           \* Document.annotation_ids
    annotation_ids_by_label,  \* Document.annotation_ids_by_label
    annotation_ids_by_key,    \* Document.annotation_ids_by_key
    added,                    \* history: per document, the annotations whose add_annotation
                              \* returned normally, in call order, with annotation.keys then
    attrs_by_id,              \* Annotation._attrs_by_id: the attached Attributes in dict
                              \* (insertion) order, each under its own uid
    attr_ids_by_label,        \* Annotation._attr_ids_by_label
    attached,                 \* history: per annotation, the Attributes add_attr accepted,
                              \* in call order
    labels_by_input_key,      \* DocPipeline.labels_by_input_key, in dict order
    declared,                 \* history: the steps list DocPipeline was constructed with
    steps,                    \* the steps of the internal Pipeline
    pc,                       \* Pipeline.process: index of the step to run next, 0 when
                              \* no run is under way
    data_by_key,              \* Pipeline.process: key -> current list of items
    produced,                 \* history: the annotations bound to an output key during
                              \* the current (or last) run
    pipeline_doc,             \* the Document bound by Pipeline.set_doc
    process_args,             \* the positional arguments of the last Pipeline.process call
    run_log,                  \* history: documents run_on_doc ran on during the last
                              \* run_on_collection call
    ser,                      \* an Attribute on its way through to_dict / from_dict:
                              \* the objects and dicts made so far, and the number of
                              \* identifiers generate_id has handed out
    prov_tracer,              \* ProvTracer: uid -> Provenance record
    tracer_set,               \* the operations set_prov_tracer was called on
    target_attrs,             \* per annotation, the Attributes propagated to it
    made,                     \* history: the Attributes the operations produced, each
                              \* with its operation, its source and its target
    ids_given,                \* number of identifiers generate_id has handed out to the
                              \* operations
    outcome                   \* how the last call ended: "ok" or the error raised

attrVars == <<attrs_by_id, attr_ids_by_label, attached>>
pipeVars == <<labels_by_input_key, declared, steps, pc, data_by_key, produced,
              pipeline_doc, process_args, run_log>>
docVars == <<doc_store, store, annotation_ids, annotation_ids_by_label,
             annotation_ids_by_key, added>>
annVars == <<ann_keys>>
provVars == <<prov_tracer, tracer_set, target_attrs, made, ids_given>>
auxVars == <<ser, provVars>>
vars == <<annVars, docVars, attrVars, pipeVars, auxVars, outcome>>

\* ------------------------------------------------------------- helpers
\* dict.get(key, [])
Get(dict, key) == IF key \in DOMAIN dict THEN dict[key] ELSE <<>>

\* if key not in dict: dict[key] = []; dict[key].append(id)
AppendTo(dict, key, id) ==
    [k \in DOMAIN dict \cup {key} |->
        IF k = key THEN Append(Get(dict, k), id) ELSE dict[k]]

\* for key in keys: (if key not in dict: dict[key] = []); dict[key].append(id)
AppendToAll(dict, keys, id) ==
    [k \in DOMAIN dict \cup keys |->
        IF k \in keys THEN Append(Get(dict, k), id) ELSE dict[k]]

\* number of positions of seq holding x
Count(seq, x) == Cardinality({i \in DOMAIN seq : seq[i] = x})

\* all orderings of a finite set, as sequences without repetition
Orderings(S) ==
    {s \in [1..Cardinality(S) -> S] : \A i, j \in DOMAIN s : i # j => s[i] # s[j]}

\* ------------------------------------------------------------- Store
\* Store.get_data_item(uid): the stored object, or absent
get_data_item(s, uid) == IF uid \in DOMAIN store[s] THEN store[s][uid] ELSE None

\* Store.store_data_item raises when the uid is held with a different object
StoreConflict(s, o) ==
    /\ ann_uid[o] \in DOMAIN store[s]
    /\ store[s][ann_uid[o]] # o

\* Store.store_data_item(item): insert under the item's own uid
store_data_item(s, o) ==
    [store EXCEPT ![s] = [u \in DOMAIN store[s] \cup {ann_uid[o]} |->
                            IF u = ann_uid[o] THEN o ELSE store[s][u]]]

\* ------------------------------------------------------------- Document
\* Document.__init__: the store given at construction (shared) or a fresh
\* DictStore; empty membership set and indices.  Annotation.__init__: uid and
\* label as given, keys = set() by default.
EmptyDict == [k \in {} |-> <<>>]

Init ==
    /\ ann_keys = [o \in AnnObjs |-> {}]
    /\ doc_store \in {[d \in Docs |-> "s1"],
                      [d \in Docs |-> IF d = "d1" THEN "s1" ELSE "s2"]}
    /\ store = [s \in Stores |-> EmptyDict]
    /\ annotation_ids = [d \in Docs |-> {}]
    /\ annotation_ids_by_label = [d \in Docs |-> EmptyDict]
    /\ annotation_ids_by_key = [d \in Docs |-> EmptyDict]
    /\ added = [d \in Docs |-> <<>>]
    /\ attrs_by_id = [o \in AnnObjs |-> <<>>]
    /\ attr_ids_by_label = [o \in AnnObjs |-> EmptyDict]
    /\ attached = [o \in AnnObjs |-> <<>>]
    /\ labels_by_input_key = <<>>
    /\ declared = <<>>
    /\ steps = <<>>
    /\ pc = 0
    /\ data_by_key = EmptyDict
    /\ produced = {}
    /\ pipeline_doc = "none"
    /\ process_args = <<>>
    /\ run_log = <<>>
    /\ ser = [stage |-> "none", ids |-> 0]
    /\ prov_tracer = EmptyDict
    /\ tracer_set = {}
    /\ target_attrs = [o \in AnnObjs |-> <<>>]
    /\ made = <<>>
    /\ ids_given = 0
    /\ outcome = "ok"

\* faulty variant: the membership test never fires
AlreadyTracked_never(d, o) == FALSE

\* `if id in self.annotation_ids`
AlreadyTracked(d, o) == ann_uid[o] \in annotation_ids[d]

\* faulty variant: the label index is not updated
IndexLabel_none(d, o) == annotation_ids_by_label

\* the label index after `annotation_ids_by_label[label].append(id)`
IndexLabel(d, o) ==
    [annotation_ids_by_label EXCEPT
        ![d] = AppendTo(annotation_ids_by_label[d], ann_label[o], ann_uid[o])]

\* faulty variant: the loop over `annotation.keys` is skipped
IndexKeys_none(d, o) == annotation_ids_by_key

\* the key index after the loop over `annotation.keys`
IndexKeys(d, o) ==
    [annotation_ids_by_key EXCEPT
        ![d] = AppendToAll(annotation_ids_by_key[d], ann_keys[o], ann_uid[o])]

\* the body of Document.add_annotation(annotation)
DocAdd(d, o) ==
    /\ UNCHANGED doc_store
    /\ IF AlreadyTracked(d, o)
       THEN /\ outcome' = "ValueError"
            /\ UNCHANGED <<store, annotation_ids, annotation_ids_by_label,
                           annotation_ids_by_key, added>>
       ELSE /\ annotation_ids' = [annotation_ids EXCEPT ![d] = @ \cup {ann_uid[o]}]
            /\ IF StoreConflict(doc_store[d], o)
               THEN /\ outcome' = "DuplicateKey"
                    /\ UNCHANGED <<store, annotation_ids_by_label,
                                   annotation_ids_by_key, added>>
               ELSE /\ store' = store_data_item(doc_store[d], o)
                    /\ annotation_ids_by_label' = IndexLabel(d, o)
                    /\ annotation_ids_by_key' = IndexKeys(d, o)
                    /\ added' = [added EXCEPT
                                    ![d] = Append(@, [ann |-> o, keys |-> ann_keys[o]])]
                    /\ outcome' = "ok"

\* Document.add_annotation(annotation), called on a document
add_annotation(d, o) ==
    /\ DocAdd(d, o)
    /\ UNCHANGED <<annVars, attrVars, pipeVars, auxVars>>

\* Document.get_annotation_by_id(annotation_id)
get_annotation_by_id(d, uid) ==
    IF uid \notin annotation_ids[d] THEN None
    ELSE get_data_item(doc_store[d], uid)

\* Document.get_annotations(): one list per iteration order of the set
\* annotation_ids (a Python set of str has no defined iteration order)
get_annotations(d) ==
    {[i \in DOMAIN ord |-> get_data_item(doc_store[d], ord[i])] :
        ord \in Orderings(annotation_ids[d])}

\* Document.get_annotations_by_key(key)
get_annotations_by_key(d, key) ==
    LET ids == Get(annotation_ids_by_key[d], key)
    IN  [i \in DOMAIN ids |-> get_data_item(doc_store[d], ids[i])]

\* Document.get_annotations_by_label(label)
get_annotations_by_label(d, label) ==
    LET ids == Get(annotation_ids_by_label[d], label)
    IN  [i \in DOMAIN ids |-> get_data_item(doc_store[d], ids[i])]

\* ------------------------------------------------------------- Annotation
\* faulty variant: add_key also appends to the key index of tracking documents
add_key_reindex(o, k) ==
    /\ ann_keys' = [ann_keys EXCEPT ![o] = @ \cup {k}]
    /\ outcome' = "ok"
    /\ annotation_ids_by_key' =
          [d \in Docs |->
              IF ann_uid[o] \in annotation_ids[d] /\ k \notin ann_keys[o]
              THEN AppendTo(annotation_ids_by_key[d], k, ann_uid[o])
              ELSE annotation_ids_by_key[d]]
    /\ UNCHANGED <<doc_store, store, annotation_ids, annotation_ids_by_label, added,
                   attrVars, pipeVars, auxVars>>

\* Annotation.add_key(key)
add_key(o, k) ==
    /\ ann_keys' = [ann_keys EXCEPT ![o] = @ \cup {k}]
    /\ outcome' = "ok"
    /\ UNCHANGED <<docVars, attrVars, pipeVars, auxVars>>

\* Annotation.keep_keys(keys)
keep_keys(o, ks) ==
    /\ ann_keys' = [ann_keys EXCEPT ![o] = @ \cap ks]
    /\ outcome' = "ok"
    /\ UNCHANGED <<docVars, attrVars, pipeVars, auxVars>>


\* uids that are keys of the dict _attrs_by_id
AttrUids(o) == {attr_uid[attrs_by_id[o][i]] : i \in DOMAIN attrs_by_id[o]}

\* self._attrs_by_id[uid]
AttrOf(o, uid) ==
    attrs_by_id[o][CHOOSE i \in DOMAIN attrs_by_id[o] : attr_uid[attrs_by_id[o][i]] = uid]

\* faulty variant: the test compares objects, not uids
AttrAttached_sameObject(o, a) == \E i \in DOMAIN attrs_by_id[o] : attrs_by_id[o][i] = a

\* `if attr.uid in self._attrs_by_id`
AttrAttached(o, a) == attr_uid[a] \in AttrUids(o)

\* `self._attrs_by_id[uid] = attr`: a new key goes last, an existing key keeps
\* its place and gets the new value
SetAttr(o, a) ==
    IF attr_uid[a] \in AttrUids(o)
    THEN [i \in DOMAIN attrs_by_id[o] |->
            IF attr_uid[attrs_by_id[o][i]] = attr_uid[a] THEN a ELSE attrs_by_id[o][i]]
    ELSE Append(attrs_by_id[o], a)

\* faulty variant: the uid is put at the front of its label bucket
IndexAttrLabel_front(o, a) ==
    [k \in DOMAIN attr_ids_by_label[o] \cup {attr_label[a]} |->
        IF k = attr_label[a]
        THEN <<attr_uid[a]>> \o Get(attr_ids_by_label[o], k)
        ELSE attr_ids_by_label[o][k]]

\* the label index after `self._attr_ids_by_label[label].append(uid)`
IndexAttrLabel(o, a) == AppendTo(attr_ids_by_label[o], attr_label[a], attr_uid[a])

\* Annotation.add_attr(attr)
add_attr(o, a) ==
    /\ UNCHANGED <<annVars, docVars, pipeVars, auxVars>>
    /\ IF AttrAttached(o, a)
       THEN /\ outcome' = "ValueError"
            /\ UNCHANGED attrVars
       ELSE /\ attrs_by_id' = [attrs_by_id EXCEPT ![o] = SetAttr(o, a)]
            /\ attr_ids_by_label' = [attr_ids_by_label EXCEPT ![o] = IndexAttrLabel(o, a)]
            /\ attached' = [attached EXCEPT ![o] = Append(@, a)]
            /\ outcome' = "ok"

\* Annotation.get_attrs(): list(self._attrs_by_id.values())
get_attrs(o) == attrs_by_id[o]

\* Annotation.get_attrs_by_label(label)
get_attrs_by_label(o, label) ==
    LET ids == Get(attr_ids_by_label[o], label)
    IN  [i \in DOMAIN ids |-> AttrOf(o, ids[i])]

\* ------------------------------------------------------------- Attribute
\* Python's None where a field holds a string
NoneStr == "None"

\* the arguments Attribute(...) is called with
AttrUidArgs == {NoneStr, "x1", "x2"}
AttrValueArgs == {NoneStr, "True", "False"}
AttrMetadataArgs == {NoneStr, "{}", "{'k': 'v'}"}

\* generate_id(): the n-th identifier handed out
generate_id(n) == "g" \o ToString(n)

\* Attribute.__init__(label, value, uid, metadata): the object as the tuple of
\* its fields <<uid, label, value, metadata>>; n identifiers were generated before
Attribute_init(label, value, uid, metadata, n) ==
    << IF uid = NoneStr THEN generate_id(n + 1) ELSE uid,
       label,
       value,
       IF metadata = NoneStr THEN "{}" ELSE metadata >>

\* Attribute.to_dict()
to_dict(x) == [uid |-> x[1], label |-> x[2], value |-> x[3], metadata |-> x[4]]

\* faulty variant: the uid of the dict is not handed to the constructor
from_dict_fresh_uid(dict, n) ==
    Attribute_init(dict.label, dict.value, NoneStr, dict.metadata, n)

\* Attribute.from_dict(attribute_dict)
from_dict(dict, n) ==
    Attribute_init(dict.label, dict.value, dict.uid, dict.metadata, n)

\* x = Attribute(label, value, uid, metadata)
new_attribute(label, value, uid, metadata) ==
    /\ ser.stage = "none"
    /\ ser' = [stage |-> "built",
               ids |-> IF uid = NoneStr THEN ser.ids + 1 ELSE ser.ids,
               x |-> Attribute_init(label, value, uid, metadata, ser.ids)]
    /\ outcome' = "ok"
    /\ UNCHANGED <<annVars, docVars, attrVars, pipeVars, provVars>>

\* d = x.to_dict()
serialize ==
    /\ ser.stage = "built"
    /\ ser' = [stage |-> "dumped", ids |-> ser.ids, x |-> ser.x, d |-> to_dict(ser.x)]
    /\ outcome' = "ok"
    /\ UNCHANGED <<annVars, docVars, attrVars, pipeVars, provVars>>

\* y = Attribute.from_dict(d); d2 = y.to_dict()
deserialize ==
    /\ ser.stage = "dumped"
    /\ LET y == from_dict(ser.d, ser.ids)
       IN  ser' = [stage |-> "reloaded",
                   ids |-> IF ser.d.uid = NoneStr THEN ser.ids + 1 ELSE ser.ids,
                   x |-> ser.x, d |-> ser.d, y |-> y, d2 |-> to_dict(y)]
    /\ outcome' = "ok"
    /\ UNCHANGED <<annVars, docVars, attrVars, pipeVars, provVars>>

\* ------------------------------------------- ProvTracer, AttributePropagator
\* the most Attributes the operations produce in one behaviour
MaxMade == 3

\* the two operations of test_provenance, named by the label they propagate
Propagators == AttrLabels

\* AttributePropagator(attr_labels=[label]).description
description(p) == "AttributePropagator(" \o p \o ")"

\* the Attributes of the source annotations: two of each label
SourceAttrs ==
    {Attribute_init("is_family", "True", "x1", NoneStr, 0),
     Attribute_init("is_family", "False", "x2", NoneStr, 0),
     Attribute_init("is_negated", "False", "x3", NoneStr, 0),
     Attribute_init("is_negated", "True", "x4", NoneStr, 0)}

\* the source Attributes of one call of run: those of the operation's label
\* among the Attributes of the source annotations, in any order
Batches(p) ==
    LET own == {x \in SourceAttrs : x[2] = p}
    IN  {<<x>> : x \in own} \cup {b \in [1..2 -> own] : b[1] # b[2]}

\* faulty variant: the whole batch is reported as the sources
SourcesOf_batch(batch, i) == batch

\* the source items an output Attribute is derived from: the one source
\* Attribute it is a copy of
SourcesOf(batch, i) == <<batch[i]>>

\* ProvTracer.add_prov(data_item, op_desc, source_data_items): a record is
\* added under the item's uid and never replaces one
add_prov(data_item, op_desc, source_data_items) ==
    IF data_item[1] \in DOMAIN prov_tracer
    THEN prov_tracer
    ELSE [u \in DOMAIN prov_tracer \cup {data_item[1]} |->
            IF u = data_item[1]
            THEN [data_item |-> data_item, op_desc |-> op_desc,
                  source_data_items |-> source_data_items]
            ELSE prov_tracer[u]]

\* the absent value of get_prov
NoProv == [absent |-> TRUE]

\* ProvTracer.get_prov(uid)
get_prov(uid) == IF uid \in DOMAIN prov_tracer THEN prov_tracer[uid] ELSE NoProv

\* operation.set_prov_tracer(prov_tracer), with the one shared tracer
set_prov_tracer(p) ==
    /\ p \notin tracer_set
    /\ tracer_set' = tracer_set \cup {p}
    /\ outcome' = "ok"
    /\ UNCHANGED <<annVars, docVars, attrVars, pipeVars, ser,
                   prov_tracer, target_attrs, made, ids_given>>

\* AttributePropagator.run(sources, targets), for one target and the source
\* Attribute batch[i] of the source overlapping it: a copy of the Attribute
\* with a new uid is attached to the target with add_attr and, a tracer being
\* set, reported to it
propagate(p, batch, i, t) ==
    /\ Len(made) < MaxMade
    /\ LET attr == Attribute_init(batch[i][2], batch[i][3], NoneStr, batch[i][4], ids_given)
       IN  /\ ids_given' = ids_given + 1
           /\ IF \E k \in DOMAIN target_attrs[t] : target_attrs[t][k][1] = attr[1]
              THEN /\ outcome' = "ValueError"
                   /\ UNCHANGED <<target_attrs, made, prov_tracer>>
              ELSE /\ target_attrs' = [target_attrs EXCEPT ![t] = Append(@, attr)]
                   /\ made' = Append(made, [attr |-> attr, op |-> p, source |-> batch[i],
                                            target |-> t, traced |-> p \in tracer_set])
                   /\ prov_tracer' =
                         IF p \in tracer_set
                         THEN add_prov(attr, description(p), SourcesOf(batch, i))
                         ELSE prov_tracer
                   /\ outcome' = "ok"
    /\ UNCHANGED <<annVars, docVars, attrVars, pipeVars, ser, tracer_set>>

\* ------------------------------------------------------------- DocPipeline
\* lists of labels an input key may be associated with
LabelLists ==
    {<<>>} \cup {<<l>> : l \in Labels}
           \cup {ls \in [1..2 -> Labels] : ls[1] # ls[2]}

\* the labels_by_input_key mappings a DocPipeline is built with: dicts of at
\* most two input keys, in dict order
Mappings ==
    {<<>>} \cup {<<[key |-> k, labels |-> ls]>> : k \in InputKeys, ls \in LabelLists}
           \cup {m \in [1..2 -> [key : InputKeys, labels : LabelLists]] :
                    m[1].key # m[2].key}

\* collections run_on_collection is called with
Collections ==
    {<<>>} \cup {<<d>> : d \in Docs} \cup {c \in [1..2 -> Docs] : c[1] # c[2]}

\* two steps chained by key "b": S1 makes "b" from the input key "in1",
\* S2 makes "c" from "b"
S1 == [operation |-> "op1", input_keys |-> <<"in1">>, output_keys |-> <<"b">>]
S2 == [operation |-> "op2", input_keys |-> <<"b">>, output_keys |-> <<"c">>]

\* the steps lists a DocPipeline is built with
StepLists == {<<>>, <<S1>>, <<S2>>, <<S1, S2>>, <<S2, S1>>}

\* what an operation may return for its output key: a list of annotations
OpOutputs == {<<>>} \cup {<<o>> : o \in AnnObjs}

\* faulty variant: the steps are taken in reverse
CopySteps_reversed(sts) == [i \in DOMAIN sts |-> sts[Len(sts) + 1 - i]]

\* [PipelineStep(s.operation, s.input_keys, s.output_keys) for s in steps]
CopySteps(sts) ==
    [i \in DOMAIN sts |->
        [operation |-> sts[i].operation,
         input_keys |-> sts[i].input_keys,
         output_keys |-> sts[i].output_keys]]

\* input_keys = list(labels_by_input_key.keys())
input_keys == [i \in DOMAIN labels_by_input_key |-> labels_by_input_key[i].key]

\* output_keys=[]
output_keys == <<>>

\* DocPipeline.__init__(steps, labels_by_input_key)
DocPipeline_init(sts, mapping) ==
    /\ pc = 0
    /\ labels_by_input_key' = mapping
    /\ declared' = sts
    /\ steps' = CopySteps(sts)
    /\ pc' = 0
    /\ data_by_key' = EmptyDict
    /\ produced' = {}
    /\ pipeline_doc' = "none"
    /\ process_args' = <<>>
    /\ run_log' = <<>>
    /\ outcome' = "ok"
    /\ UNCHANGED <<annVars, docVars, attrVars, auxVars>>

\* the inner loop of run_on_doc over one key's labels: the first label's list,
\* then `+=` the list of each further label
RECURSIVE GatherLabels(_, _)
GatherLabels(d, labels) ==
    IF labels = <<>> THEN <<>>
    ELSE LET n == Len(labels)
         IN  GatherLabels(d, SubSeq(labels, 1, n - 1))
                \o get_annotations_by_label(d, labels[n])

\* all_input_anns.values(): an entry is created for a key when its first label
\* is visited, so a key with no label gets no entry
AllInputAnns(d) ==
    LET HasLabels(e) == e.labels # <<>>
        entries == SelectSeq(labels_by_input_key, HasLabels)
    IN  [i \in DOMAIN entries |-> GatherLabels(d, entries[i].labels)]

\* Pipeline.process, seeding: the i-th positional argument is bound to
\* input_keys[i]
Seed(keys, args) ==
    LET n == IF Len(keys) < Len(args) THEN Len(keys) ELSE Len(args)
    IN  [k \in {keys[i] : i \in 1..n} |->
            args[CHOOSE i \in 1..n : keys[i] = k]]

\* faulty variant: the getter hands out the index's own list, so `+=` extends
\* the bucket of a key's first label with the ids under its second label
LabelIndexAfterGather_aliased(d) ==
    [annotation_ids_by_label EXCEPT ![d] =
        [l \in DOMAIN annotation_ids_by_label[d] |->
            IF \E i \in DOMAIN labels_by_input_key :
                  /\ Len(labels_by_input_key[i].labels) > 1
                  /\ labels_by_input_key[i].labels[1] = l
            THEN LET i == CHOOSE i \in DOMAIN labels_by_input_key :
                              /\ Len(labels_by_input_key[i].labels) > 1
                              /\ labels_by_input_key[i].labels[1] = l
                 IN  annotation_ids_by_label[d][l]
                        \o Get(annotation_ids_by_label[d], labels_by_input_key[i].labels[2])
            ELSE annotation_ids_by_label[d][l]]]

\* the label index after the gathering loop: get_annotations_by_label builds a
\* new list on each call, so `+=` extends that list and not the index
LabelIndexAfterGather(d) == annotation_ids_by_label

\* DocPipeline.run_on_doc(doc): gather the inputs, Pipeline.set_doc(doc),
\* Pipeline.process(*all_input_anns.values()) up to its first step
run_on_doc(d) ==
    /\ pc = 0
    /\ process_args' = AllInputAnns(d)
    /\ annotation_ids_by_label' = LabelIndexAfterGather(d)
    /\ pipeline_doc' = d
    /\ data_by_key' = Seed(input_keys, AllInputAnns(d))
    /\ produced' = {}
    /\ pc' = IF steps = <<>> THEN 0 ELSE 1
    /\ run_log' = <<>>
    /\ outcome' = "ok"
    /\ UNCHANGED <<annVars, doc_store, store, annotation_ids, annotation_ids_by_key,
                   added, attrVars, auxVars, labels_by_input_key, declared, steps>>

\* Pipeline.process, one step: its input keys must be bound; the operation's
\* output is bound to the step's output key and, a Document being bound, each
\* annotation of it is added to the Document; an error ends the run
pipeline_step(out) ==
    /\ pc \in DOMAIN steps
    /\ UNCHANGED <<annVars, attrVars, auxVars, labels_by_input_key, declared, steps,
                   pipeline_doc, process_args, run_log>>
    /\ LET step == steps[pc]
           last == pc = Len(steps)
       IN  IF \E i \in DOMAIN step.input_keys : step.input_keys[i] \notin DOMAIN data_by_key
           THEN /\ outcome' = "MissingKey"
                /\ pc' = 0
                /\ UNCHANGED <<docVars, data_by_key, produced>>
           ELSE /\ data_by_key' =
                     [k \in DOMAIN data_by_key \cup {step.output_keys[1]} |->
                         IF k = step.output_keys[1] THEN out ELSE data_by_key[k]]
                /\ produced' = produced \cup {out[i] : i \in DOMAIN out}
                /\ IF out = <<>>
                   THEN /\ outcome' = "ok"
                        /\ UNCHANGED docVars
                   ELSE DocAdd(pipeline_doc, out[1])
                /\ pc' = IF last \/ outcome' # "ok" THEN 0 ELSE pc + 1

\* what Pipeline.process returns: the bindings of its declared output keys
Returned == [i \in DOMAIN output_keys |-> data_by_key[output_keys[i]]]

\* DocPipeline.run_on_collection(collection): the loop body calls
\* self.run_on_document, a method DocPipeline does not have, so the first
\* iteration raises AttributeError before any document is processed
run_on_collection(coll) ==
    /\ pc = 0
    /\ run_log' = <<>>
    /\ outcome' = IF coll = <<>> THEN "ok" ELSE "AttributeError"
    /\ UNCHANGED <<annVars, docVars, attrVars, auxVars, labels_by_input_key,
                   declared, steps, pc, data_by_key, produced,
                   pipeline_doc, process_args>>

\* ------------------------------------------------------------- specifications
\* documents, stores and annotation keys
Next ==
    \/ \E d \in Docs, o \in AnnObjs : add_annotation(d, o)
    \/ \E o \in AnnObjs, k \in Keys : add_key(o, k)
    \/ \E o \in AnnObjs, ks \in SUBSET Keys : keep_keys(o, ks)

Spec == Init /\ [][Next]_vars

\* attributes of annotations
NextAttr == \E o \in AnnObjs, a \in AttrObjs : add_attr(o, a)

SpecAttr == Init /\ [][NextAttr]_vars

\* an Attribute through to_dict and from_dict
NextSer ==
    \/ \E l \in AttrLabels, v \in AttrValueArgs, u \in AttrUidArgs, m \in AttrMetadataArgs :
          new_attribute(l, v, u, m)
    \/ serialize
    \/ deserialize

SpecSer == Init /\ [][NextSer]_vars

\* document pipelines over documents
NextPipe ==
    \/ \E d \in Docs, o \in AnnObjs : add_annotation(d, o)
    \/ \E m \in Mappings : DocPipeline_init(<<>>, m)
    \/ \E d \in Docs : run_on_doc(d)
    \/ \E c \in Collections : run_on_collection(c)

\* each Document built with its own DictStore (store=None, the default)
InitPipe == Init /\ doc_store = [d \in Docs |-> IF d = "d1" THEN "s1" ELSE "s2"]

SpecPipe == InitPipe /\ [][NextPipe]_vars

\* operations sharing one provenance tracer
NextProv ==
    \/ \E p \in Propagators : set_prov_tracer(p)
    \/ \E p \in Propagators, t \in AnnObjs :
          \E batch \in Batches(p) : \E i \in DOMAIN batch : propagate(p, batch, i, t)

SpecProv == Init /\ [][NextProv]_vars

\* the mappings of the pipelines with steps: the one input key "in1"
StepMappings == {m \in Mappings : Len(m) = 1 /\ m[1].key = "in1"}

\* document pipelines with steps; a run is not interleaved with other calls
NextSteps ==
    \/ pc = 0 /\ \E d \in Docs, o \in AnnObjs : add_annotation(d, o)
    \/ \E sts \in StepLists, m \in StepMappings : DocPipeline_init(sts, m)
    \/ \E d \in Docs : run_on_doc(d)
    \/ \E out \in OpOutputs : pipeline_step(out)

SpecSteps == InitPipe /\ [][NextSteps]_vars

\* ------------------------------------------------------------- properties
\* the annotations of added[d], in call order
AddedAnns(d) == [i \in DOMAIN added[d] |-> added[d][i].ann]

\* what the claims promise of a successful add_annotation(o) on d
IndexedOnce(d, o) ==
    /\ outcome' = "ok"
    /\ Count(get_annotations_by_label(d, ann_label[o])', o) = 1
    /\ \A k \in ann_keys[o] : Count(get_annotations_by_key(d, k)', o) = 1

\* C1 (as stated): add_annotation(ann) of an annotation whose uid the document
\* does not track succeeds, and afterwards ann is exactly once in its label
\* bucket and in the bucket of each of its keys.
C1_AddUntrackedSucceeds ==
    [][\A d \in Docs, o \in AnnObjs :
         (add_annotation(d, o) /\ ann_uid[o] \notin annotation_ids[d])
            => IndexedOnce(d, o)]_vars

\* C1 (amended): the same, when moreover the document's Store does not hold
\* a different object under ann's uid.
C1_AddUntrackedUnstoredSucceeds ==
    [][\A d \in Docs, o \in AnnObjs :
         (/\ add_annotation(d, o)
          /\ ann_uid[o] \notin annotation_ids[d]
          /\ get_data_item(doc_store[d], ann_uid[o]) \in {None, o})
            => IndexedOnce(d, o)]_vars

\* an annotation carrying a key was added and sits in its label and key buckets
C1_Witness ==
    /\ outcome = "ok"
    /\ \E d \in Docs, k \in Keys :
         /\ added[d] # <<>>
         /\ LET last == added[d][Len(added[d])]
            IN  /\ k \in last.keys
                /\ Count(get_annotations_by_key(d, k), last.ann) = 1
                /\ Count(get_annotations_by_label(d, ann_label[last.ann]), last.ann) = 1

\* C2: add_annotation on a document that already tracks the uid fails, and
\* leaves membership set, label index, key index and Store as they were.
C2_DuplicateAddFailsUnchanged ==
    [][\A d \in Docs, o \in AnnObjs :
         (add_annotation(d, o) /\ ann_uid[o] \in annotation_ids[d])
            => /\ outcome' = "ValueError"
               /\ UNCHANGED <<annotation_ids, annotation_ids_by_label,
                              annotation_ids_by_key, store>>]_vars

\* a duplicate add was rejected on a document that indexes an annotation
C2_Witness ==
    /\ outcome = "ValueError"
    /\ \E d \in Docs : added[d] # <<>>

\* C3: every tracked uid is in the document's Store, is in exactly the label
\* bucket of its annotation's label, and is in the key bucket of every key the
\* annotation had when it was added - also after failing add_annotation calls.
C3_TrackedUidsAreIndexed ==
    \A d \in Docs : \A u \in annotation_ids[d] :
        /\ u \in DOMAIN store[doc_store[d]]
        /\ \A l \in Labels :
              Count(Get(annotation_ids_by_label[d], l), u) =
                 IF l = ann_label[store[doc_store[d]][u]] THEN 1 ELSE 0
        /\ \E i \in DOMAIN added[d] :
              /\ ann_uid[added[d][i].ann] = u
              /\ \A k \in added[d][i].keys :
                    Count(Get(annotation_ids_by_key[d], k), u) = 1

\* C4: after successful add_annotation calls, get_annotations(),
\* get_annotations_by_key and get_annotations_by_label return the matching
\* annotations in the order they were added (empty list when nothing matches).
C4_GettersInInsertionOrder ==
    \A d \in Docs :
        (annotation_ids[d] = {ann_uid[AddedAnns(d)[i]] : i \in DOMAIN added[d]})
        => /\ \A r \in get_annotations(d) : r = AddedAnns(d)
           /\ \A k \in Keys :
                 LET HasKey(e) == k \in e.keys
                     sel == SelectSeq(added[d], HasKey)
                 IN  get_annotations_by_key(d, k) = [i \in DOMAIN sel |-> sel[i].ann]
           /\ \A l \in Labels :
                 LET HasLabel(e) == ann_label[e.ann] = l
                     sel == SelectSeq(added[d], HasLabel)
                 IN  get_annotations_by_label(d, l) = [i \in DOMAIN sel |-> sel[i].ann]

\* C5: on two documents over one shared Store, get_annotation_by_id(uid)
\* returns the annotation exactly when uid was added to that document, and
\* absent otherwise.
C5_LookupOnlyOwnAnnotations ==
    (\A d \in Docs : doc_store[d] = "s1") =>
        \A d \in Docs, u \in Uids :
            LET own == {AddedAnns(d)[i] : i \in DOMAIN added[d]}
            IN  IF \E o \in own : ann_uid[o] = u
                THEN get_annotation_by_id(d, u) \in own
                     /\ ann_uid[get_annotation_by_id(d, u)] = u
                ELSE get_annotation_by_id(d, u) = None

\* C6: add_key / keep_keys on an annotation leave every
\* get_annotations_by_key(key) of every document as it was.
C6_KeyChangesLeaveIndex ==
    [][((\E o \in AnnObjs, k \in Keys : add_key(o, k))
          \/ (\E o \in AnnObjs, ks \in SUBSET Keys : keep_keys(o, ks)))
        => \A d \in Docs, k \in Keys :
              get_annotations_by_key(d, k)' = get_annotations_by_key(d, k)]_vars

\* an added annotation whose keys now differ from those it was added with
C6_Witness ==
    \E d \in Docs : \E i \in DOMAIN added[d] :
        added[d][i].keys # ann_keys[added[d][i].ann]

\* the concatenation, in the order of labels, of the document's label buckets
RECURSIVE ConcatByLabel(_, _)
ConcatByLabel(d, labels) ==
    IF labels = <<>> THEN <<>>
    ELSE get_annotations_by_label(d, Head(labels)) \o ConcatByLabel(d, Tail(labels))

\* C7: run_on_doc(doc) passes to process one list per declared input key: the
\* concatenation, in label-list order, of the document's label buckets.
C7_OneListPerInputKey ==
    [][\A d \in Docs :
         run_on_doc(d) =>
            /\ Len(process_args') = Len(labels_by_input_key)
            /\ \A i \in DOMAIN labels_by_input_key :
                  process_args'[i] = ConcatByLabel(d, labels_by_input_key[i].labels)]_vars

\* C8: run_on_collection(collection) runs run_on_doc once per Document, in
\* collection order, and completes.
C8_RunsOnEveryDocument ==
    [][\A c \in Collections :
         run_on_collection(c) => (outcome' = "ok" /\ run_log' = c)]_vars

\* C9: add_attr of an Attribute whose uid is already attached fails and leaves
\* get_attrs() and the label index of the Annotation unchanged.
C9_DuplicateAttrFailsUnchanged ==
    [][\A o \in AnnObjs, a \in AttrObjs :
         (add_attr(o, a) /\ attr_uid[a] \in AttrUids(o))
            => /\ outcome' = "ValueError"
               /\ get_attrs(o)' = get_attrs(o)
               /\ attr_ids_by_label'[o] = attr_ids_by_label[o]]_vars

\* an add_attr was rejected on an annotation that holds attributes
C9_Witness ==
    /\ outcome = "ValueError"
    /\ \E o \in AnnObjs : get_attrs(o) # <<>>

\* C10: get_attrs() is the accepted Attributes in insertion order, and
\* get_attrs_by_label(l) is its subsequence of label l (empty when none).
C10_AttrsByLabelIsSubsequence ==
    \A o \in AnnObjs :
        /\ get_attrs(o) = attached[o]
        /\ \A l \in AttrLabels :
              LET HasLabel(a) == attr_label[a] = l
              IN  get_attrs_by_label(o, l) = SelectSeq(get_attrs(o), HasLabel)

\* an annotation with two attributes of one label and a label with none,
\* after a rejected add_attr
C10_Witness ==
    /\ outcome = "ValueError"
    /\ \E o \in AnnObjs, l1, l2 \in AttrLabels :
         /\ Len(get_attrs_by_label(o, l1)) = 2
         /\ get_attrs_by_label(o, l2) = <<>>

\* C11: for every Attribute x, Attribute.from_dict(x.to_dict()).to_dict()
\* equals x.to_dict().
C11_AttributeRoundTrip ==
    ser.stage = "reloaded" => ser.d2 = ser.d

\* an Attribute built with the defaults (uid and metadata None) went through
C11_Witness ==
    /\ ser.stage = "reloaded"
    /\ ser.ids = 1
    /\ ser.d.uid = generate_id(1)
    /\ ser.d.metadata = "{}"

\* a step of the current run is taken
StepTaken == \E out \in OpOutputs : pipeline_step(out)

\* C12: the steps run in the order given at construction: seeded with the
\* input key, a pipeline declared as [S2, S1] fails with MissingKey at its
\* first step, S2 reading the unproduced "b", and no step of a pipeline
\* declared as [S1, S2] fails with MissingKey: step i of the run is step i of
\* the declaration
C12_StepsRunInDeclaredOrder ==
    [][(StepTaken /\ "in1" \in DOMAIN data_by_key) =>
          /\ steps[pc] = declared[pc]
          /\ (declared = <<S2, S1>> =>
                 pc = 1 /\ outcome' = "MissingKey" /\ pc' = 0 /\ produced' = {})
          /\ (declared = <<S1, S2>> => outcome' # "MissingKey")]_vars

\* a pipeline declared as [S1, S2] ran both steps to the end: "b" and "c" are
\* bound
C12_Witness ==
    /\ declared = <<S1, S2>>
    /\ pc = 0
    /\ outcome = "ok"
    /\ pipeline_doc \in Docs
    /\ {"in1", "b", "c"} \subseteq DOMAIN data_by_key
    /\ data_by_key["c"] # <<>>

\* the run has come to its end without an error
RunCompletes == (StepTaken \/ \E d \in Docs : run_on_doc(d)) /\ pc' = 0 /\ outcome' = "ok"

\* C13: when run_on_doc completes successfully, every annotation bound to an
\* output key during the run is in the document, retrievable by its id and
\* present in its label bucket, and nothing is returned to the caller
C13_OutputsAreInDocument ==
    [][RunCompletes =>
          /\ pipeline_doc' \in Docs
          /\ \A d \in Docs, o \in produced' :
                pipeline_doc' = d =>
                   /\ get_annotation_by_id(d, ann_uid[o])' = o
                   /\ Count(get_annotations_by_label(d, ann_label[o])', o) >= 1
          /\ Returned' = <<>>]_vars

\* a run of two steps completed, each step having produced an annotation
C13_Witness ==
    /\ Len(steps) = 2
    /\ pc = 0
    /\ outcome = "ok"
    /\ pipeline_doc \in Docs
    /\ Cardinality(produced) = 2
    /\ \A o \in produced : get_annotation_by_id(pipeline_doc, ann_uid[o]) = o

\* C15: run_on_doc calls process with one argument per declared input key,
\* so that the seeding binds every declared key to the list gathered for it,
\* the empty list for a key with no labels
C15_EveryKeyBoundToItsOwnList ==
    [][\A d \in Docs : run_on_doc(d) =>
          /\ Len(process_args') = Len(input_keys)
          /\ \A i \in DOMAIN labels_by_input_key :
                /\ input_keys[i] \in DOMAIN data_by_key'
                /\ data_by_key'[input_keys[i]] =
                       ConcatByLabel(d, labels_by_input_key[i].labels)]_vars

\* C16: gathering the inputs leaves the document as it was: membership set,
\* label index and key index are unchanged by run_on_doc, and the lists
\* gathered are those a second gathering would yield
C16_GatheringLeavesDocument ==
    [][\A d \in Docs : run_on_doc(d) =>
          /\ UNCHANGED <<annotation_ids, annotation_ids_by_label,
                         annotation_ids_by_key, store>>
          /\ AllInputAnns(d)' = process_args']_vars

\* run_on_doc gathered, for a key with two labels, annotations of both
C16_Witness ==
    /\ pipeline_doc \in Docs
    /\ outcome = "ok"
    /\ process_args = AllInputAnns(pipeline_doc)
    /\ \E i \in DOMAIN labels_by_input_key :
          /\ Len(labels_by_input_key[i].labels) = 2
          /\ \A j \in 1..2 :
                get_annotations_by_label(pipeline_doc, labels_by_input_key[i].labels[j]) # <<>>
          /\ i \in DOMAIN process_args
          /\ Len(process_args[i]) >= 2

====
